---- MODULE Spec2Model ----
(***************************************************************************)
(* aimux: call-graph validation, the nested-call chain driven by main,     *)
(* and the lazy subprocess stream (Read / Close / teardown).               *)
(*                                                                         *)
(* Strings are modelled as sequences of atoms: "architect~claude" is       *)
(* <<"architect", "~", "claude">> and "" is << >>, so that concatenation,  *)
(* strings.Contains and strings.Split are computed, not assumed.           *)
(***************************************************************************)
EXTENDS Integers, Sequences, FiniteSets, TLC

VARIABLES
    ctx,        \* the Context of the current aimux invocation
    outcome,    \* result of ValidateCall for it: -1 not validated, 0 allowed, else code
    env,        \* environment of the process that invokes aimux
    nest,       \* number of aimux-spawned backends the invoking process runs under
    disk,       \* ~/.aimux/conversations: directories, context.json, log.jsonl
    effects,    \* what the current invocation has done so far
    nextId,     \* next identifier NewID hands out
    pc,         \* position of the current invocation in main
    calls,      \* invocations (or validations) made so far
    lvlForced,  \* some invocation of the chain had its depth set with -lvl
    st,         \* the LazyCommandStream, its process and its pipe
    cl,         \* the Close call in progress and the teardown steps recorded
    ops,        \* Read / Close calls made on the stream so far
    drain,      \* StreamAndLog: its local variables, what it wrote to the sink
    call        \* one invocation followed step by step: its flags, the context as created

vars ==
    <<ctx, outcome, env, nest, disk, effects, nextId, pc, calls, lvlForced, st, cl, ops,
      drain, call>>

-----------------------------------------------------------------------------
(* Bounds *)

MaxTagLen == 3
MaxLvl == 4
MaxValidations == 2
MaxOps == 4
MaxCalls == 5
MaxIds == 4
MaxNest == 3

-----------------------------------------------------------------------------
(* Strings *)

Sep == "~"
Terminal == "engineer"
Empty == << >>

Atoms == {"engineer", "claude", Sep}

RECURSIVE StringsUpTo(_)
StringsUpTo(n) ==
    IF n = 0 THEN {Empty}
    ELSE LET shorter == StringsUpTo(n - 1)
         IN  shorter \cup {Append(s, a) : s \in shorter, a \in Atoms}

Contains(s, a) == \E i \in 1..Len(s) : s[i] = a

IndexOf(s, a) == CHOOSE i \in 1..Len(s) : s[i] = a /\ \A j \in 1..(i - 1) : s[j] # a

\* strings.Split(s, a)[0]: the part before the first separator, or all of s
SplitFirst(s, a) == IF Contains(s, a) THEN SubSeq(s, 1, IndexOf(s, a) - 1) ELSE s

Genera == {"claude", "bash"}
Personas == {"", "architect", "engineer"}

Str(w) == IF w = "" THEN Empty ELSE <<w>>

-----------------------------------------------------------------------------
(* Identity *)

Tag3(c) == IF c.MOD # "" THEN <<c.MOD, Sep, c.GEN>> ELSE <<c.GEN>>

-----------------------------------------------------------------------------
(* Call-graph validation *)

Allowed == 0
CodeSelfCall == 1
CodeDepth == 3
CodeTerminal == 4
CodeUndiff == 5

DepthLimit == 3

\* mutant: the depth limit compared with > instead of >=
CheckDepthOffByOne(c) == c.LVL > DepthLimit

CheckDepth(c) == c.LVL >= DepthLimit

\* mutant: the self-call rule without its test for an empty callee tag
CheckSelfCallUnguarded(c) == c.TAG = c.TOP

CheckSelfCall(c) == c.TAG # Empty /\ c.TAG = c.TOP

\* mutant: the terminal role looked up in the callee's tag
CheckEngineerCallee(c) ==
    /\ c.TAG # Empty
    /\ Contains(c.TAG, Sep)
    /\ SplitFirst(c.TAG, Sep) = <<Terminal>>

CheckEngineer(c) ==
    /\ c.TOP # Empty
    /\ Contains(c.TOP, Sep)
    /\ SplitFirst(c.TOP, Sep) = <<Terminal>>

\* mutant: the separator looked for in the callee's tag
CheckUndifferentiatedCallee(c) ==
    /\ c.TOP # Empty
    /\ ~Contains(c.TAG, Sep)
    /\ c.MOD = Terminal

CheckUndifferentiated(c) ==
    /\ c.TOP # Empty
    /\ ~Contains(c.TOP, Sep)
    /\ c.MOD = Terminal

\* mutant: the reference script's "own persona" rule (code 2) kept
ValidateCallOwnPersona(c) ==
    IF CheckDepth(c) THEN CodeDepth
    ELSE IF CheckSelfCall(c) THEN CodeSelfCall
    ELSE IF c.TOP # Empty /\ c.TOP = Tag3(c) THEN 2
    ELSE IF CheckEngineer(c) THEN CodeTerminal
    ELSE IF CheckUndifferentiated(c) THEN CodeUndiff
    ELSE Allowed

\* mutant: the engineer rule tried before the self-call rule
ValidateCallEngineerFirst(c) ==
    IF CheckDepth(c) THEN CodeDepth
    ELSE IF CheckEngineer(c) THEN CodeTerminal
    ELSE IF CheckSelfCall(c) THEN CodeSelfCall
    ELSE IF CheckUndifferentiated(c) THEN CodeUndiff
    ELSE Allowed

ValidateCall(c) ==
    IF CheckDepth(c) THEN CodeDepth
    ELSE IF CheckSelfCall(c) THEN CodeSelfCall
    ELSE IF CheckEngineer(c) THEN CodeTerminal
    ELSE IF CheckUndifferentiated(c) THEN CodeUndiff
    ELSE Allowed

-----------------------------------------------------------------------------
(* ValidateCall on arbitrary contexts *)

Tags == StringsUpTo(MaxTagLen)

\* the contexts drawn: any caller tag; a callee tag that is empty, derived
\* from persona and genus, or equal to the caller's
InitValidate ==
    /\ \E top \in Tags, gen \in Genera, mod \in Personas, lvl \in (-1)..MaxLvl :
         LET c == [CID |-> 1, SID |-> 1, TOP |-> top, TAG |-> Empty, GEN |-> gen,
                   MOD |-> mod, LVL |-> lvl]
         IN  \E tag \in {Empty, top, Tag3(c)} : ctx = [c EXCEPT !.TAG = tag]
    /\ outcome = -1
    /\ calls = 0
    /\ env = 0 /\ nest = 0 /\ disk = 0 /\ effects = {} /\ nextId = 1
    /\ pc = "validate" /\ lvlForced = FALSE
    /\ st = 0 /\ cl = 0 /\ ops = << >> /\ drain = 0 /\ call = 0

\* CallGenus up to the return of ValidateCall
Validate ==
    /\ calls < MaxValidations
    /\ outcome' = ValidateCall(ctx)
    /\ calls' = calls + 1
    /\ UNCHANGED <<ctx, env, nest, disk, effects, nextId, pc, lvlForced, st, cl, ops, drain, call>>

NextValidate == Validate

SpecValidate == InitValidate /\ [][NextValidate]_vars

-----------------------------------------------------------------------------
(* Properties of ValidateCall, checked under SpecValidate *)

Validated == outcome # -1

\* the role component of a tag: the part before the first separator
HasRole(tag) == Contains(tag, Sep)
RoleOf(tag) == SubSeq(tag, 1, IndexOf(tag, Sep) - 1)
IsSelfCall(c) == c.TAG # Empty /\ c.TAG = c.TOP

\* C1: ValidateCall is total and deterministic: every validation yields exactly
\* one outcome among allowed, 1, 3, 4 and 5, it leaves the context as it was,
\* and validating the same context again yields the same outcome.
C1_ValidateTotalDeterministic ==
    /\ [](Validated => outcome \in {Allowed, CodeSelfCall, CodeDepth, CodeTerminal, CodeUndiff})
    /\ [][/\ ctx' = ctx
          /\ outcome' # -1
          /\ (Validated => outcome' = outcome)]_vars

C1_Witness == calls = MaxValidations /\ outcome = Allowed /\ ctx.TOP # Empty

\* C2: Depth >= 3 is denied with code 3 whatever the other fields are, and
\* Depth <= 2 is never denied with code 3.
C2_DepthRule ==
    Validated => (outcome = CodeDepth <=> ctx.LVL >= 3)

C2_Witness ==
    /\ Validated /\ ctx.LVL = 3 /\ outcome = CodeDepth
    /\ IsSelfCall(ctx) /\ HasRole(ctx.TOP) /\ RoleOf(ctx.TOP) = <<Terminal>>

\* C4: a non-empty callee tag equal to the caller tag is denied with code 1
\* when Depth < 3, also for a tag of the terminal role, and with code 3 when
\* Depth >= 3.
C4_SelfCallRule ==
    (Validated /\ IsSelfCall(ctx)) =>
        outcome = (IF ctx.LVL < 3 THEN CodeSelfCall ELSE CodeDepth)

C4_Witness ==
    /\ Validated /\ IsSelfCall(ctx) /\ ctx.LVL < 3
    /\ HasRole(ctx.TOP) /\ RoleOf(ctx.TOP) = <<Terminal>>
    /\ outcome = CodeSelfCall

\* C5: a caller tag whose role component is the terminal role is never
\* allowed; with Depth < 3 and a callee tag that differs from it the code is 4.
C5_TerminalCallerRule ==
    (Validated /\ HasRole(ctx.TOP) /\ RoleOf(ctx.TOP) = <<Terminal>>) =>
        /\ outcome # Allowed
        /\ (ctx.LVL < 3 /\ ctx.TAG # ctx.TOP => outcome = CodeTerminal)

C5_Witness ==
    /\ Validated /\ HasRole(ctx.TOP) /\ RoleOf(ctx.TOP) = <<Terminal>>
    /\ ctx.LVL < 3 /\ ctx.TAG # ctx.TOP /\ ctx.TAG # Empty
    /\ outcome = CodeTerminal

\* C6 as stated: with Depth < 3 and no self-call, a caller tag without a role
\* component and the persona 'engineer' are denied with code 5.
C6_UndifferentiatedRule_Original ==
    (Validated /\ ctx.LVL < 3 /\ ~IsSelfCall(ctx)
        /\ ~HasRole(ctx.TOP) /\ ctx.MOD = Terminal) => outcome = CodeUndiff

\* C6 amended: with Depth < 3 and no self-call, a non-empty caller tag without
\* a role component and the persona 'engineer' are denied with code 5; with an
\* empty caller tag (a top-level call) the same context is allowed.
C6_UndifferentiatedRule ==
    (Validated /\ ctx.LVL < 3 /\ ~IsSelfCall(ctx)
        /\ ~HasRole(ctx.TOP) /\ ctx.MOD = Terminal) =>
        outcome = (IF ctx.TOP # Empty THEN CodeUndiff ELSE Allowed)

C6_Witness ==
    /\ Validated /\ ctx.LVL < 3 /\ ~IsSelfCall(ctx)
    /\ ctx.TOP # Empty /\ ~HasRole(ctx.TOP) /\ ctx.MOD = Terminal
    /\ ctx.TAG = Tag3(ctx)
    /\ outcome = CodeUndiff

\* C36: a top-level call, with an empty caller tag and Depth < 3, is allowed
\* for every genus and every persona, the terminal role 'engineer' included.
C36_TopLevelAllowed ==
    (Validated /\ ctx.TOP = Empty /\ ctx.LVL < 3) => outcome = Allowed

\* a top-level call of the persona 'engineer' at depth 2 was allowed
C36_Witness ==
    /\ Validated /\ ctx.TOP = Empty /\ ctx.LVL = 2
    /\ ctx.MOD = Terminal /\ ctx.TAG = Tag3(ctx)
    /\ outcome = Allowed

-----------------------------------------------------------------------------
(* Subprocess lifecycle: LazyCommandStream and CommandStream *)

\* mutant: the command is started when the stream is built
EagerStream ==
    [once |-> TRUE, stream |-> TRUE, err |-> "", cancelled |-> FALSE,
     expired |-> FALSE, proc |-> "running", pipe |-> "open", exit |-> "", spawns |-> 1,
     starts |-> 1]

\* What CallGenus returns: a command that is prepared and not started
NewLazyStream ==
    [once |-> FALSE, stream |-> FALSE, err |-> "", cancelled |-> FALSE,
     expired |-> FALSE, proc |-> "none", pipe |-> "none", exit |-> "", spawns |-> 0,
     starts |-> 0]

CtxDone(s) == s.cancelled \/ s.expired

\* LazyCommandStream.start with the outcome of StdoutPipe / cmd.Start:
\* "ok", "pipe" (StdoutPipe failed: "create stdout pipe: ...") or "start"
\* (cmd.Start failed: "start <path>: ..."); starts counts the calls of start
LazyStart(s, how) ==
    IF how = "ok"
    THEN [s EXCEPT !.stream = TRUE, !.proc = "running", !.pipe = "open",
                   !.spawns = @ + 1, !.starts = @ + 1]
    ELSE [s EXCEPT !.cancelled = TRUE, !.err = how, !.starts = @ + 1]

\* cmd.Start refuses to start under a context that is already done
StartOutcomes(s) == IF CtxDone(s) THEN {"pipe", "start"} ELSE {"ok", "pipe", "start"}

\* CommandStream.Read: the result for a stream whose start has been decided
StreamRead(s, data) ==
    IF CtxDone(s) THEN "ctx_err"
    ELSE IF s.pipe = "open" THEN data
    ELSE "closed_err"

\* mutant: a Read that finds the error of a failed start tries again
LazyReadRetries(s, how, data) ==
    LET s1 == IF s.once /\ s.err = "" THEN s
              ELSE LazyStart([s EXCEPT !.once = TRUE, !.err = ""], how)
    IN  [st  |-> s1,
         ret |-> IF s1.err # "" THEN s1.err
                 ELSE IF ~s1.stream THEN "panic"
                 ELSE StreamRead(s1, data)]

\* LazyCommandStream.Read: the stream after the call and what the call returns;
\* a nil stream with a nil error is dereferenced
LazyRead(s, how, data) ==
    LET s1 == IF s.once THEN s ELSE LazyStart([s EXCEPT !.once = TRUE], how)
    IN  [st  |-> s1,
         ret |-> IF s1.err # "" THEN s1.err
                 ELSE IF ~s1.stream THEN "panic"
                 ELSE StreamRead(s1, data)]

\* mutant: Close leaves the once alone
LazyCloseSkipsOnce(s) == s

\* LazyCommandStream.Close up to the call of stream.Close: once.Do(cancel)
LazyCloseOnce(s) ==
    IF s.once THEN s ELSE [s EXCEPT !.once = TRUE, !.cancelled = TRUE]

\* CommandStream.killProcessGroup: SIGKILL ends a process that still runs
KillProcessGroup(s) ==
    IF s.proc = "running" THEN [s EXCEPT !.proc = "exited", !.exit = "killed"] ELSE s

\* cmd.Wait once the process has exited: it is reaped
Reap(s) == IF s.proc = "exited" THEN [s EXCEPT !.proc = "reaped"] ELSE s

\* stdout.Close: an *os.File closes once, a second close is an error
PipeCloseFails(s) == s.pipe # "open"

ClosePipe(s) == [s EXCEPT !.pipe = "closed"]

\* the error cmd.Wait reports for the exit status
WaitResult(s) == IF s.exit = "ok" THEN "nil" ELSE "exit_err"

\* cmd.Wait called by Close after the kill. When the process had exited
\* before the kill, the cmd.Wait of Close's goroutine has recorded its state
\* and the call returns at once ("Wait was already called"). When the kill
\* ended the process, two cmd.Wait calls run on one exec.Cmd without
\* synchronisation: the call returns, or it blocks for ever on a result the
\* other call has taken.
WaitAgainOutcomes(c, s) ==
    IF c.done \/ s.proc # "running" THEN {"returns"} ELSE {"returns", "blocks"}

IdleClose == [pc |-> "idle", timer |-> FALSE, done |-> FALSE, acts |-> << >>,
              started |-> FALSE, again |-> FALSE]

InitStream ==
    /\ st = NewLazyStream
    /\ cl = IdleClose
    /\ ops = << >>
    /\ drain = 0
    /\ call = 0
    /\ ctx = 0 /\ outcome = -1 /\ env = 0 /\ nest = 0 /\ disk = 0
    /\ effects = {} /\ nextId = 1 /\ pc = "stream" /\ calls = 0 /\ lvlForced = FALSE

chainVars ==
    <<ctx, outcome, env, nest, disk, effects, nextId, pc, calls, lvlForced, drain, call>>

Closed == \E i \in 1..Len(ops) : ops[i].op = "Close"

\* LazyCommandStream.Read, called by the consumer of the stream
Read ==
    /\ cl.pc = "idle"
    /\ Len(ops) < MaxOps
    /\ \E how \in StartOutcomes(st), data \in {"data", "eof"} :
         LET r == LazyRead(st, how, data)
         IN  /\ st' = r.st
             /\ ops' = Append(ops, [op |-> "Read", ret |-> r.ret, acts |-> << >>,
                                    started |-> st.stream, again |-> Closed,
                                    proc |-> r.st.proc, expired |-> st.expired])
    /\ UNCHANGED <<cl, chainVars>>

\* LazyCommandStream.Close, and CommandStream.Close up to its select
CloseEnter ==
    /\ cl.pc = "idle"
    /\ Len(ops) < MaxOps
    /\ LET s1 == LazyCloseOnce(st)
           c0 == [IdleClose EXCEPT !.started = s1.stream, !.again = Closed]
       IN  IF ~s1.stream
           THEN \* never started: nothing to tear down
                /\ st' = s1
                /\ cl' = IdleClose
                /\ ops' = Append(ops, [op |-> "Close", ret |-> "nil", acts |-> << >>,
                                       started |-> FALSE, again |-> Closed,
                                       proc |-> s1.proc])
           ELSE IF PipeCloseFails(s1)
           THEN \* stdout.Close failed: kill, reap, return the error
                /\ st' = [Reap(KillProcessGroup(s1)) EXCEPT !.cancelled = TRUE]
                /\ cl' = IdleClose
                /\ ops' = Append(ops, [op |-> "Close", ret |-> "pipe_err",
                                       acts |-> <<"close_pipe_failed", "kill", "wait">>,
                                       started |-> TRUE, again |-> Closed,
                                       proc |-> Reap(KillProcessGroup(s1)).proc])
           ELSE \* pipe closed, cmd.Wait runs in its goroutine, select begins
                /\ st' = ClosePipe(s1)
                /\ cl' = [c0 EXCEPT !.pc = "select",
                                    !.acts = <<"close_pipe", "wait_async">>]
                /\ ops' = ops
    /\ UNCHANGED chainVars

\* the backend process exits on its own (or is ended by its cancelled context)
ProcExit ==
    /\ st.proc = "running"
    /\ \E e \in {"ok", "fail"} : st' = [st EXCEPT !.proc = "exited", !.exit = e]
    /\ UNCHANGED <<cl, ops, chainVars>>

\* the deadline of the command's context passes
Deadline ==
    /\ ~st.expired
    /\ st' = [st EXCEPT !.expired = TRUE]
    /\ UNCHANGED <<cl, ops, chainVars>>

\* the goroutine's cmd.Wait returns and its result is sent on done
WaitReturns ==
    /\ cl.pc = "select"
    /\ ~cl.done
    /\ st.proc = "exited"
    /\ st' = Reap(st)
    /\ cl' = [cl EXCEPT !.done = TRUE, !.acts = Append(@, "reaped")]
    /\ UNCHANGED <<ops, chainVars>>

\* five seconds pass while Close is in its select
TimerFires ==
    /\ cl.pc = "select"
    /\ ~cl.timer
    /\ cl' = [cl EXCEPT !.timer = TRUE]
    /\ UNCHANGED <<st, ops, chainVars>>

\* select takes the done case: Close returns what cmd.Wait returned
CloseDone ==
    /\ cl.pc = "select"
    /\ cl.done
    /\ st' = [st EXCEPT !.cancelled = TRUE]
    /\ ops' = Append(ops, [op |-> "Close", ret |-> WaitResult(st), acts |-> cl.acts,
                           started |-> cl.started, again |-> cl.again,
                           proc |-> st.proc])
    /\ cl' = IdleClose
    /\ UNCHANGED chainVars

\* select takes the timer case: kill the group, call cmd.Wait a second time,
\* return the timeout error
CloseTimeout ==
    /\ cl.pc = "select"
    /\ cl.timer
    /\ \E w \in WaitAgainOutcomes(cl, st) :
         IF w = "returns"
         THEN /\ st' = [Reap(KillProcessGroup(st)) EXCEPT !.cancelled = TRUE]
              /\ ops' = Append(ops, [op |-> "Close", ret |-> "timeout_err",
                                     acts |-> cl.acts \o <<"timeout", "kill", "wait">>,
                                     started |-> cl.started, again |-> cl.again,
                                     proc |-> Reap(KillProcessGroup(st)).proc])
              /\ cl' = IdleClose
         ELSE /\ st' = Reap(KillProcessGroup(st))
              /\ ops' = ops
              /\ cl' = [cl EXCEPT !.pc = "blocked",
                                  !.acts = @ \o <<"timeout", "kill", "wait">>]
    /\ UNCHANGED chainVars

NextStream ==
    \/ Read
    \/ CloseEnter
    \/ ProcExit
    \/ Deadline
    \/ WaitReturns
    \/ TimerFires
    \/ CloseDone
    \/ CloseTimeout

SpecStream == InitStream /\ [][NextStream]_vars

\* a Close in its select is scheduled: the goroutine's cmd.Wait returns once
\* the process has exited, five seconds pass, select takes a ready case
SpecStreamFair ==
    /\ SpecStream
    /\ WF_vars(WaitReturns)
    /\ WF_vars(TimerFires)
    /\ WF_vars(CloseDone)
    /\ WF_vars(CloseTimeout)

-----------------------------------------------------------------------------
(* Properties of the stream, checked under SpecStream *)

IsRead(i) == ops[i].op = "Read"
IsClose(i) == ops[i].op = "Close"
NoReadYet == \A i \in 1..Len(ops) : ~IsRead(i)

Position(acts, a) == CHOOSE i \in 1..Len(acts) : acts[i] = a

\* C8: the backend process is not spawned before the first Read: as long as
\* no Read has been called, whatever else was called, no process was started.
C8_LazyStart ==
    NoReadYet => (st.proc = "none" /\ st.spawns = 0 /\ st.pipe = "none")

C8_Witness ==
    /\ NoReadYet
    /\ Len(ops) >= 2 /\ IsClose(1)
    /\ st.proc = "none"

C8_StartedByRead ==
    /\ Len(ops) >= 1 /\ IsRead(1) /\ ops[1].ret = "data"
    /\ st.spawns = 1

\* C9: Close is idempotent: every Close on a stream that was never started,
\* and every Close that follows an earlier Close, returns without error, and a
\* Close that follows an earlier Close performs no teardown action.
C9_CloseIdempotent ==
    \A i \in 1..Len(ops) :
        IsClose(i) =>
            /\ (~ops[i].started => ops[i].ret = "nil" /\ ops[i].acts = << >>)
            /\ (ops[i].again => ops[i].ret = "nil" /\ ops[i].acts = << >>)

\* C10: every Close on a started stream closes the output pipe first, then
\* waits asynchronously against the 5-second bound, kills the process group
\* only after that bound was exceeded and then reaps; the process is reaped
\* whenever Close returns.
C10_TeardownOrder ==
    \A i \in 1..Len(ops) :
        (IsClose(i) /\ ops[i].started) =>
            LET a == ops[i].acts
            IN  /\ Len(a) >= 2 /\ a[1] = "close_pipe" /\ a[2] = "wait_async"
                /\ (Contains(a, "kill") =>
                        /\ Contains(a, "timeout")
                        /\ Position(a, "timeout") < Position(a, "kill")
                        /\ a[Position(a, "kill") + 1] = "wait")
                /\ ops[i].proc = "reaped"

\* the first Close of a started stream does tear down in the order of C10
FirstCloseTeardownOrder ==
    \A i \in 1..Len(ops) :
        (IsClose(i) /\ ops[i].started /\ ~ops[i].again) =>
            LET a == ops[i].acts
            IN  /\ Len(a) >= 2 /\ a[1] = "close_pipe" /\ a[2] = "wait_async"
                /\ (Contains(a, "kill") =>
                        /\ Contains(a, "timeout")
                        /\ Position(a, "timeout") < Position(a, "kill")
                        /\ a[Position(a, "kill") + 1] = "wait")
                /\ ops[i].proc = "reaped"

\* the results of a Read that are errors (not data, not end of file)
ReadErrors == {"ctx_err", "closed_err", "pipe", "start"}

\* C11: a Read that follows a Close (of a started or a never started stream),
\* or that is called after the deadline has passed, returns an error and
\* takes nothing from the output pipe.
C11_ReadAfterCloseFails ==
    \A i \in 1..Len(ops) :
        (IsRead(i) /\ (ops[i].again \/ ops[i].expired)) => ops[i].ret \in ReadErrors

\* a Read of a started stream after its Close, and a Read after the deadline
\* of a stream that was not closed before its start, do fail
ReadAfterDeadlineFails ==
    \A i \in 1..Len(ops) :
        (IsRead(i) /\ (ops[i].started \/ ~ops[i].again)
                   /\ (ops[i].expired \/ ops[i].again))
            => ops[i].ret \in ReadErrors

Closing == cl.pc # "idle"

\* C12: a Close that has been called eventually returns, whether or not the
\* backend process exits on its own.
C12_CloseReturns == Closing ~> ~Closing

\* the start of the backend was tried and failed
StartFailed == st.err # ""

ClosedFirst == Len(ops) > 0 /\ ops[1].op = "Close"

\* C37: when Close is called before any Read, no later Read or Close starts
\* the backend process.
C37_CloseFirstNeverSpawns ==
    ClosedFirst => (st.spawns = 0 /\ st.starts = 0 /\ st.proc = "none")

\* after a first Close, a Read and a second Close were called
C37_Witness ==
    /\ ClosedFirst /\ Len(ops) = 3
    /\ ops[2].op = "Read" /\ ops[3].op = "Close"
    /\ st.spawns = 0

-----------------------------------------------------------------------------
(* Storage: ~/.aimux/conversations/<CID>/<GEN>[/<MOD>]/{log.jsonl,context.json} *)

emptyModPlaceholder == "-"

Ids == 1..MaxIds
AllDirs == Ids \X Genera \X (Personas \cup {emptyModPlaceholder})

Dir1(c) == <<c.CID, c.GEN, "">>
Dir2(c) == <<c.CID, c.GEN, c.MOD>>
Log1(c) == Dir1(c)
Log2(c) == <<c.CID, c.GEN, IF c.MOD = "" THEN emptyModPlaceholder ELSE c.MOD>>
Log3(c) == Dir2(c)

\* A snapshot is the session id context.json holds: 0 when the file does not
\* exist, Unusable when it does not parse or holds an empty id.
Unusable == -1

\* A line of log.jsonl: a JSON object with its session_id (0: none,
\* NotUUID: a string that is no UUID), its "from" and its "type" ("": absent),
\* or a line that is blank or no JSON. The body of a Message is kept where a
\* property reads it (<< >> elsewhere).
NotUUID == -1
Record(sid, from, type) ==
    [form |-> "json", session_id |-> sid, from |-> from, type |-> type, body |-> << >>,
     long |-> FALSE]
BlankLine ==
    [form |-> "blank", session_id |-> 0, from |-> "", type |-> "", body |-> << >>,
     long |-> FALSE]
GarbageLine ==
    [form |-> "garbage", session_id |-> 0, from |-> "", type |-> "", body |-> << >>,
     long |-> FALSE]

\* the same line with more bytes than a bufio.Scanner with its default
\* buffer returns as one token (64KB); the writers of the log set no limit
\* (AppendMessage) or a higher one (StreamAndLog, MaxLineLength)
LongLine(l) == [l EXCEPT !.long = TRUE]

\* scanner.Scan() with the default buffer: the lines it returns before it
\* stops, at the end of the file or at the first line that is too long
Scannable(log) ==
    SubSeq(log, 1, Cardinality({i \in 1..Len(log) : \A j \in 1..i : ~log[j].long}))

\* json.Marshal of a Message with the given body
MessageLine(sid, from, body) == [Record(sid, from, "") EXCEPT !.body = body]

\* nothing stored: no directory, no snapshot (0), no log file
EmptyDisk ==
    [dirs |-> {}, files |-> {}, snap |-> [d \in AllDirs |-> 0],
     log |-> [d \in AllDirs |-> << >>]]

MkdirAll(d, dir) == [d EXCEPT !.dirs = @ \cup {dir}]

\* os.WriteFile of context.json: fails (a warning only) without the directory
saveContext(d, c) ==
    IF Dir2(c) \in d.dirs THEN [d EXCEPT !.snap[Dir2(c)] = c.SID] ELSE d

\* a line written to log.jsonl opened with O_CREATE|O_APPEND
AppendLine(d, dir, line) ==
    IF dir \in d.dirs
    THEN [d EXCEPT !.files = @ \cup {dir}, !.log[dir] = Append(@, line)]
    ELSE d

\* a Message record: session_id, at, from, body
AppendRecord(d, dir, sid, from) == AppendLine(d, dir, Record(sid, from, ""))

AppendMessage(d, c, from) == AppendRecord(MkdirAll(d, Dir2(c)), Log3(c), c.SID, from)

fileExists(d, path) == path \in d.files
\* mutant: a log counts only when it holds a record that is not the user's
hasContentAssistantOnly(d, path) ==
    /\ path \in d.files
    /\ \E i \in 1..Len(d.log[path]) :
         d.log[path][i].form = "json" /\ d.log[path][i].from \notin {"", "user"}

hasContent(d, path) == path \in d.files /\ Len(d.log[path]) > 0
hasEstablishedSession(d, path) ==
    /\ path \in d.files
    /\ \E i \in 1..Len(Scannable(d.log[path])) :
         LET l == d.log[path][i]
         IN  l.form = "json" /\ (l.from \notin {"", "user"} \/ l.type = "assistant")

\* what DetermineSessionID and lastSessionID return in place of an id when
\* they return an error
ResolveError == -2

\* mutant: the id of the last line is returned without the UUID test
lastSessionIDUnvalidated(d, path) ==
    LET l == d.log[path][Len(d.log[path])]
    IN  IF path \notin d.files THEN ResolveError
        ELSE IF Scannable(d.log[path]) # d.log[path] THEN ResolveError
        ELSE IF l.form # "json" THEN ResolveError
        ELSE IF l.session_id = 0 THEN ResolveError
        ELSE l.session_id

\* lastSessionID: the session id of the last line, or an error (a file that
\* cannot be opened, scanner.Err() for a line that is too long, a last line
\* that is empty, does not parse or holds no id in UUID form)
lastSessionID(d, path) ==
    LET l == d.log[path][Len(d.log[path])]
    IN  IF path \notin d.files THEN ResolveError
        ELSE IF Scannable(d.log[path]) # d.log[path] THEN ResolveError
        ELSE IF l.form # "json" THEN ResolveError
        ELSE IF l.session_id = 0 THEN ResolveError
        ELSE IF l.session_id = NotUUID THEN ResolveError
        ELSE l.session_id

\* mutant: the logs are consulted before context.json
DetermineSessionIDLogFirst(d, c) ==
    IF hasContent(d, Log2(c)) THEN lastSessionID(d, Log2(c))
    ELSE IF c.MOD = "" /\ hasContent(d, Log1(c)) THEN lastSessionID(d, Log1(c))
    ELSE IF d.snap[Dir2(c)] > 0 THEN d.snap[Dir2(c)]
    ELSE c.CID

\* DetermineSessionID: context.json, then log2, then log1 when undifferentiated,
\* then the conversation id
DetermineSessionID(d, c) ==
    IF d.snap[Dir2(c)] > 0 THEN d.snap[Dir2(c)]
    ELSE IF hasContent(d, Log2(c)) THEN lastSessionID(d, Log2(c))
    ELSE IF c.MOD = "" /\ hasContent(d, Log1(c)) THEN lastSessionID(d, Log1(c))
    ELSE c.CID

\* buildSessionFlags: which flag set is rendered, the session id it carries,
\* whether a new id was generated for it, and the boolean it returns
buildSessionFlags(d, c, branchFlags, fresh) ==
    IF hasEstablishedSession(d, Log2(c))
    THEN [kind |-> "resume", sid |-> c.SID, minted |-> FALSE, isNew |-> FALSE]
    ELSE IF hasEstablishedSession(d, Log1(c))
    THEN [kind |-> IF fileExists(d, Log2(c)) /\ branchFlags THEN "branch" ELSE "resume",
          sid |-> c.SID, minted |-> FALSE, isNew |-> FALSE]
    ELSE IF fileExists(d, Log2(c)) /\ c.CID # c.SID
    THEN [kind |-> "new", sid |-> fresh, minted |-> TRUE, isNew |-> TRUE]
    ELSE [kind |-> "new", sid |-> c.SID, minted |-> FALSE, isNew |-> TRUE]

-----------------------------------------------------------------------------
(* main: one invocation of aimux, and the chain of nested invocations *)

NoContext ==
    [CID |-> 0, SID |-> 0, TOP |-> Empty, TAG |-> Empty, GEN |-> "", MOD |-> "", LVL |-> 0]

\* the environment of a shell outside any aimux backend
RootEnv == [AITAG |-> Empty, AILVL |-> 0, AICID |-> 0, AIGEN |-> "", AIMOD |-> ""]

\* InitContext and the first part of ResumeContext: identity from the
\* arguments and from AITAG / AILVL
NewContext(cid, sid, gen, mod, e) ==
    LET c == [CID |-> cid, SID |-> sid, TOP |-> e.AITAG, TAG |-> Empty,
              GEN |-> gen, MOD |-> mod, LVL |-> e.AILVL]
    IN  [c EXCEPT !.TAG = Tag3(c)]

\* mutant: the branch becomes a conversation of its own
BranchNewConversation(c, fresh) == [c EXCEPT !.CID = fresh, !.SID = fresh, !.LVL = 0]

\* Branch: a new session id within the conversation
Branch(c, fresh) == [c EXCEPT !.SID = fresh, !.LVL = 0]

\* the variables CallGenus appends to the backend's environment
ChildEnv(c) ==
    [AITAG |-> c.TAG, AILVL |-> c.LVL + 1, AICID |-> c.CID, AIGEN |-> c.GEN,
     AIMOD |-> c.MOD]

\* mutant: -top lands in the callee tag
ApplyOverridesTopIntoTag(c, lvl, top, tag) ==
    LET c1 == IF lvl >= 0 THEN [c EXCEPT !.LVL = lvl] ELSE c
        c2 == IF top # Empty THEN [c1 EXCEPT !.TAG = top] ELSE c1
    IN  IF tag # Empty THEN [c2 EXCEPT !.TAG = tag] ELSE c2

\* -lvl, -top and -tag
ApplyOverrides(c, lvl, top, tag) ==
    LET c1 == IF lvl >= 0 THEN [c EXCEPT !.LVL = lvl] ELSE c
        c2 == IF top # Empty THEN [c1 EXCEPT !.TOP = top] ELSE c1
    IN  IF tag # Empty THEN [c2 EXCEPT !.TAG = tag] ELSE c2

Init ==
    /\ ctx = NoContext
    /\ outcome = -1
    /\ env = RootEnv
    /\ nest = 0
    /\ disk = EmptyDisk
    /\ effects = {}
    /\ nextId = 1
    /\ pc = "shell"
    /\ calls = 0
    /\ lvlForced = FALSE
    /\ st = NewLazyStream
    /\ cl = IdleClose
    /\ ops = << >>
    /\ drain = 0
    /\ call = 0

streamVars == <<cl, ops, drain, call>>

\* what an invocation is given: -gen, -mod (or AIMOD when "unset"), the
\* conversation (-cid, or AICID without it; 0 is none), -new, -lvl, -top, -tag
GenFlags == {"claude"}
ModFlags == {"unset"} \cup Personas
CidChoices == {env.AICID} \cup 1..(nextId - 1)
LvlFlags == {-1}
TopFlags == {Empty}
TagFlags == {Empty}

GenOf(genFlag) ==
    IF genFlag # "" THEN genFlag ELSE IF env.AIGEN # "" THEN env.AIGEN ELSE "bash"

ModOf(modFlag) == IF modFlag = "unset" THEN env.AIMOD ELSE modFlag

\* whether the genus configures branch flags
HasBranchFlags(gen) == gen = "claude"

\* main exits before a context exists: no -cid and no -new, or a
\* conversation that is not on disk
InvokeRefused ==
    /\ pc = "shell"
    /\ calls < MaxCalls
    /\ \E genFlag \in GenFlags, modFlag \in ModFlags, cid \in CidChoices,
          new \in BOOLEAN :
         LET c0 == NewContext(cid, cid, GenOf(genFlag), ModOf(modFlag), env)
         IN  /\ \/ cid = 0 /\ ~new
                \/ cid # 0 /\ disk.snap[Dir2(c0)] = 0
             /\ effects' = IF cid = 0 THEN {} ELSE {"resolve"}
    /\ ctx' = NoContext
    /\ outcome' = -1
    /\ calls' = calls + 1
    /\ st' = NewLazyStream
    /\ UNCHANGED <<env, nest, disk, nextId, pc, lvlForced, streamVars>>

\* main from the context (InitContext, or ResumeContext and Branch) through
\* the overrides and AppendMessage to the return of CallGenus
Invoke ==
    /\ pc = "shell"
    /\ calls < MaxCalls
    /\ nextId + 1 <= MaxIds
    /\ \E genFlag \in GenFlags, modFlag \in ModFlags, cid \in CidChoices,
          new \in BOOLEAN, lvl \in LvlFlags, top \in TopFlags, tag \in TagFlags :
         LET gen == GenOf(genFlag)
             mod == ModOf(modFlag)
             \* InitContext, or ResumeContext
             c0  == IF cid = 0
                    THEN NewContext(nextId, nextId, gen, mod, env)
                    ELSE LET r == NewContext(cid, cid, gen, mod, env)
                         IN  [r EXCEPT !.SID = DetermineSessionID(disk, r)]
             n0  == IF cid = 0 THEN nextId + 1 ELSE nextId
             e0  == IF cid = 0 THEN {"mint"} ELSE {"resolve"}
             \* Branch
             br  == cid # 0 /\ new
             c1  == IF br THEN Branch(c0, n0) ELSE c0
             n1  == IF br THEN n0 + 1 ELSE n0
             d1  == IF br THEN saveContext(MkdirAll(disk, Dir2(c1)), c1) ELSE disk
             e1  == IF br THEN e0 \cup {"mint", "mkdir", "snapshot"} ELSE e0
             \* overrides, then the user message
             c2  == ApplyOverrides(c1, lvl, top, tag)
             d2  == AppendMessage(d1, c2, "user")
             e2  == e1 \cup {"mkdir", "log"}
             \* CallGenus
             code == ValidateCall(c2)
             f   == buildSessionFlags(d2, c2, HasBranchFlags(gen), n1)
         IN  /\ cid # 0 \/ new
             /\ cid # 0 => disk.snap[Dir2(c0)] # 0
             /\ outcome' = code
             /\ IF code # Allowed
                THEN /\ ctx' = c2
                     /\ nextId' = n1
                     /\ effects' = e2
                     /\ pc' = "shell"
                ELSE /\ ctx' = [c2 EXCEPT !.SID = f.sid]
                     /\ nextId' = IF f.minted THEN n1 + 1 ELSE n1
                     /\ effects' = IF f.minted THEN e2 \cup {"mint"} ELSE e2
                     /\ pc' = "called"
             /\ disk' = d2
             /\ lvlForced' = (lvlForced \/ lvl >= 0)
    /\ calls' = calls + 1
    /\ st' = NewLazyStream
    /\ UNCHANGED <<env, nest, streamVars>>

\* StreamAndLog's first scanner.Scan: the first Read on the stream
FirstRead ==
    /\ pc = "called"
    /\ \E how \in StartOutcomes(st) :
         LET r == LazyRead(st, how, "data")
         IN  /\ st' = r.st
             /\ IF r.st.proc = "running"
                THEN /\ pc' = "running"
                     /\ effects' = effects \cup {"spawn"}
                ELSE /\ pc' = "shell"
                     /\ effects' = effects
    /\ UNCHANGED <<ctx, outcome, env, nest, disk, nextId, calls, lvlForced, streamVars>>

\* StreamAndLog on the first non-empty line, a line of plain text
FirstLine ==
    /\ pc = "running"
    /\ "output" \notin effects
    /\ disk' = AppendRecord(saveContext(MkdirAll(disk, Dir2(ctx)), ctx),
                            Log3(ctx), ctx.SID, "assistant")
    /\ effects' = effects \cup {"output", "mkdir", "snapshot", "log"}
    /\ UNCHANGED <<ctx, outcome, env, nest, nextId, pc, calls, lvlForced, st, streamVars>>

\* end of the stream: the backend has exited, StreamAndLog writes the
\* snapshot once more, main closes the stream and exits
Finish ==
    /\ pc = "running"
    /\ disk' = saveContext(disk, ctx)
    /\ pc' = "shell"
    /\ st' = [Reap([ClosePipe(st) EXCEPT !.proc = "exited", !.exit = "ok"])
                 EXCEPT !.cancelled = TRUE]
    /\ effects' = IF Dir2(ctx) \in disk.dirs THEN effects \cup {"snapshot"} ELSE effects
    /\ UNCHANGED <<ctx, outcome, env, nest, nextId, calls, lvlForced, streamVars>>

\* the backend process, running with the environment CallGenus gave it,
\* becomes the caller of the next invocation
Nested ==
    /\ pc = "running"
    /\ nest < MaxNest
    /\ env' = ChildEnv(ctx)
    /\ nest' = nest + 1
    /\ pc' = "shell"
    /\ outcome' = -1
    /\ effects' = {}
    /\ ctx' = NoContext
    /\ st' = NewLazyStream
    /\ UNCHANGED <<disk, nextId, calls, lvlForced, streamVars>>

Next ==
    \/ InvokeRefused
    \/ Invoke
    \/ FirstRead
    \/ FirstLine
    \/ Finish
    \/ Nested

Spec == Init /\ [][Next]_vars

Denied == pc = "shell" /\ outcome \notin {-1, Allowed}

\* C3: along a chain of nested calls (each created, resumed or branched from
\* inside the previous backend, no depth given with -lvl) a call at nesting
\* level 3 or deeper is denied, so no backend is spawned at nesting level 3
\* or more. (The claim names the code, 3; already the denial fails.)
C3_DepthLimitOnChain ==
    (nest >= DepthLimit /\ ~lvlForced /\ outcome # -1) =>
        (outcome # Allowed /\ "spawn" \notin effects)

\* C7: an invocation that validation denies has run no other stage: no id
\* resolved or minted, no directory, log record or snapshot written, no spawn.
C7_DeniedCallHasNoEffect ==
    Denied => effects = {}

\* an allowed call has ended and its backend gave no line of output
EndedWithoutOutput == pc = "shell" /\ outcome = Allowed /\ "output" \notin effects

\* C13: a call whose backend produces no non-empty output line (it fails to
\* start, or exits before any output) has created no conversation directory,
\* no log file and no context snapshot.
C13_NoOutputNoArtifact ==
    EndedWithoutOutput => effects \cap {"mkdir", "log", "snapshot"} = {}

-----------------------------------------------------------------------------
(* DetermineSessionID on arbitrary stored states *)

MaxLogLen == 2

\* the session ids stored: in context.json, in the persona log (Log2), in
\* the undifferentiated log (Log1); the conversation id is 1
SnapSid == 2
Log2Sid == 3
Log1Sid == 4

\* the lines a log may hold, its records carrying the id sid
LogLines(sid) ==
    {Record(sid, "user", ""), Record(sid, "assistant", ""),
     Record(0, "assistant", ""), Record(NotUUID, "assistant", ""),
     BlankLine, GarbageLine}

\* the persona log may also hold a prompt of more than 64KB
PersonaLogLines(sid) == LogLines(sid) \cup {LongLine(Record(sid, "user", ""))}

RECURSIVE LinesUpTo(_, _)
LinesUpTo(S, n) ==
    IF n = 0 THEN {<< >>}
    ELSE LET shorter == LinesUpTo(S, n - 1)
         IN  shorter \cup {Append(w, l) : w \in shorter, l \in S}

\* the stored state of context c: its snapshot, its persona log, its
\* undifferentiated log (an empty log is a file that is absent or empty)
DiskWith(c, snap, l2, l1) ==
    LET d0 == [EmptyDisk EXCEPT !.dirs = {Dir1(c), Dir2(c), Log2(c)},
                                !.snap[Dir2(c)] = snap]
        d1 == IF l2 = << >> THEN d0
              ELSE [d0 EXCEPT !.files = @ \cup {Log2(c)}, !.log[Log2(c)] = l2]
    IN  IF l1 = << >> THEN d1
        ELSE [d1 EXCEPT !.files = @ \cup {Log1(c)}, !.log[Log1(c)] = l1]

InitResolve ==
    /\ \E mod \in {"", "architect"}, snap \in {0, Unusable, SnapSid},
          l2 \in LinesUpTo(PersonaLogLines(Log2Sid), MaxLogLen),
          l1 \in LinesUpTo(LogLines(Log1Sid), MaxLogLen) :
         LET c == NewContext(1, 1, "claude", mod, RootEnv)
         IN  /\ ctx = c
             /\ disk = DiskWith(c, snap, l2, l1)
    /\ outcome = -1
    /\ pc = "resolve"
    /\ calls = 0 /\ env = RootEnv /\ nest = 0 /\ effects = {} /\ nextId = 1
    /\ lvlForced = FALSE /\ st = 0 /\ cl = 0 /\ ops = << >> /\ drain = 0 /\ call = 0

\* ResumeContext: DetermineSessionID, and its result stored in the context
Resolve ==
    /\ pc = "resolve"
    /\ outcome' = DetermineSessionID(disk, ctx)
    /\ ctx' = IF outcome' = ResolveError THEN ctx ELSE [ctx EXCEPT !.SID = outcome']
    /\ pc' = "resolved"
    /\ UNCHANGED <<env, nest, disk, effects, nextId, calls, lvlForced, st, cl, ops, drain, call>>

NextResolve == Resolve

SpecResolve == InitResolve /\ [][NextResolve]_vars

-----------------------------------------------------------------------------
(* Properties of DetermineSessionID, checked under SpecResolve *)

Resolved == pc = "resolved"

SnapshotUsable == disk.snap[Dir2(ctx)] > 0
PersonaLog == disk.log[Log2(ctx)]
PlainLog == disk.log[Log1(ctx)]
LastLine(log) == log[Len(log)]

\* the log can be read to its end (no line above the scanner's 64KB) and
\* its last line yields a session id
Extractable(log) ==
    /\ log # << >>
    /\ \A i \in 1..Len(log) : ~log[i].long
    /\ LastLine(log).form = "json"
    /\ LastLine(log).session_id > 0

OnlyUserRecords(log) ==
    /\ log # << >>
    /\ \A i \in 1..Len(log) : log[i].form = "json" /\ log[i].from = "user"

\* the log DetermineSessionID takes as its source, if any
TakesPersonaLog == ~SnapshotUsable /\ PersonaLog # << >>
TakesPlainLog ==
    ~SnapshotUsable /\ PersonaLog = << >> /\ ctx.MOD = "" /\ PlainLog # << >>

\* C18: strict priority: a usable snapshot wins over any log content;
\* otherwise the persona log is the source; otherwise, only for an empty
\* persona, the undifferentiated log; otherwise the conversation id.
C18_ResolvePriority ==
    Resolved =>
        /\ SnapshotUsable => outcome = disk.snap[Dir2(ctx)]
        /\ TakesPersonaLog =>
              outcome = IF Extractable(PersonaLog)
                        THEN LastLine(PersonaLog).session_id ELSE ResolveError
        /\ TakesPlainLog =>
              outcome = IF Extractable(PlainLog)
                        THEN LastLine(PlainLog).session_id ELSE ResolveError
        /\ (~SnapshotUsable /\ ~TakesPersonaLog /\ ~TakesPlainLog) => outcome = ctx.CID

\* every source is overridden by one before it
C18_Witness ==
    /\ Resolved
    /\ SnapshotUsable
    /\ Extractable(PersonaLog) /\ Extractable(PlainLog)
    /\ outcome = SnapSid

C20_CorruptLogIsError ==
    (Resolved /\ (TakesPersonaLog \/ TakesPlainLog)) =>
        LET log == IF TakesPersonaLog THEN PersonaLog ELSE PlainLog
        IN  ~Extractable(log) => outcome = ResolveError /\ ctx.SID = ctx.CID

C20_Witness ==
    /\ Resolved /\ TakesPersonaLog
    /\ LastLine(PersonaLog) = GarbageLine
    /\ Extractable(PlainLog)
    /\ outcome = ResolveError

-----------------------------------------------------------------------------
(* StreamAndLog: the drain of the backend's output, line by line *)

MaxLines == 3

\* the ceiling on emitted bytes and the longest line the scanner accepts,
\* scaled down (10MB and 1MB in the source)
MaxOutputSize == 3
MaxLineLength == 2

\* the session ids a backend reports; the context enters with session id 1
StreamSids == {2, 3}

\* A line of output: a JSON object with its "type", its session_id (0: the
\* record has no such field), its is_error and the length of the text it carries, or a line
\* that does not parse as a JSON object, with its first character ("x": any
\* character but '{', '[' and '<'; "": the empty line) and its length.
JsonLine(type, sid, isError) ==
    [form |-> "json", first |-> "{", type |-> type, session_id |-> sid,
     is_error |-> isError, len |-> IF type = "assistant" THEN 2 ELSE 0]
TextLine(first, len) ==
    [form |-> "text", first |-> first, type |-> "", session_id |-> 0,
     is_error |-> FALSE, len |-> len]
EmptyLine == TextLine("", 0)

JsonLines ==
    {JsonLine("assistant", sid, isError) : sid \in {0} \cup StreamSids, isError \in BOOLEAN}
    \cup {JsonLine("system", sid, FALSE) : sid \in {0, 2}}
    \cup {JsonLine("result", 2, isError) : isError \in BOOLEAN}
    \cup {JsonLine("error", 0, isError) : isError \in BOOLEAN}

LineLengths == {1, MaxLineLength}

\* the lines that open a stream, the lines drawn once the stream is
\* structured (those that do not parse are skipped alike), and the lines
\* drawn once it is plain text or markup
OpeningLines ==
    JsonLines \cup {EmptyLine}
    \cup {TextLine(first, len) : first \in {"[", "<", "x"}, len \in LineLengths}
StructuredLines == JsonLines \cup {EmptyLine, TextLine("x", 1), TextLine("<", 1)}
PlainLines == {EmptyLine} \cup {TextLine(first, len) : first \in {"{", "x"}, len \in LineLengths}

detectFormat(line) ==
    IF line.len = 0 /\ line.form = "text" THEN "empty"
    ELSE IF line.first \in {"{", "["} THEN "json"
    ELSE IF line.first = "<" THEN "xml"
    ELSE "text"

NextLines(dr) ==
    IF dr.format = "" THEN OpeningLines
    ELSE IF dr.format = "json" THEN StructuredLines
    ELSE PlainLines

\* the local variables of StreamAndLog (format, streamHasError, pendingSID,
\* sidSaved, totalOutput), what it wrote to the sink, how it returned, and
\* what is remembered of the stream for the properties below
NewDrain(c, d) ==
    [pc |-> "scan", n |-> 0, format |-> "", streamHasError |-> FALSE,
     pendingSID |-> 0, sidSaved |-> FALSE, totalOutput |-> 0,
     sink |-> << >>, sunk |-> 0, notices |-> 0, lateWrites |-> 0, ret |-> "",
     sid0 |-> c.SID, disk0 |-> d, sidPrev |-> c.SID, errSeen |-> FALSE,
     lastSeen |-> 0, first0 |-> "", input |-> << >>, inBytes |-> 0,
     readFailed |-> FALSE, endSave |-> FALSE, line |-> EmptyLine]

\* a line as text: its first character and its length
Body(line) == <<line.first, line.len>>

\* what the sink receives: a line and its newline, the text of a record, an
\* error message and its newline, the truncation notice
SunkLine(line) == [kind |-> "line", first |-> line.first, len |-> line.len]
SunkText(len) == [kind |-> "text", first |-> "", len |-> len]
SunkMessage == [kind |-> "msg", first |-> "", len |-> 0]
SunkNotice == [kind |-> "notice", first |-> "", len |-> 0]

\* os.OpenFile(log3, O_CREATE|O_APPEND): the file exists from now on
OpenLog(d, path) == IF path \in d.dirs THEN [d EXCEPT !.files = @ \cup {path}] ELSE d

\* the first non-empty line: directory, snapshot, log file
FirstLineSetup(d, c) == OpenLog(saveContext(MkdirAll(d, Dir2(c)), c), Log3(c))

IsEmptyLine(line) == line.form = "text" /\ line.len = 0

\* mutant: the format follows every non-empty line
FormatForEachLine(dr, line) ==
    IF ~IsEmptyLine(line) THEN detectFormat(line) ELSE dr.format

\* the format in force for a line, detected on the first non-empty one
FormatFor(dr, line) ==
    IF dr.format = "" /\ ~IsEmptyLine(line) THEN detectFormat(line) ELSE dr.format

DiskFor(dr, d, c, line) ==
    IF dr.format = "" /\ ~IsEmptyLine(line) THEN FirstLineSetup(d, c) ELSE d

\* scanner.Scan and the head of the loop: the line is counted and the format
\* is settled. Remembered: sidPrev, the session id the context had when the
\* line arrived; first0, the first character of the first non-empty line;
\* input and inBytes, the lines read of a stream that is not structured
Scanned(dr, c, line) ==
    LET fmt == FormatFor(dr, line)
    IN  [dr EXCEPT !.n = @ + 1, !.format = fmt, !.line = line,
                   !.sidPrev = c.SID,
                   !.first0 = IF @ = "" THEN line.first ELSE @,
                   !.input = IF fmt # "json" THEN Append(@, line) ELSE @,
                   !.inBytes = @ + (IF line.form = "text" THEN line.len ELSE 0)]

\* an error record: of type "error", or with is_error set
IsErrorRecord(line) == line.form = "json" /\ (line.type = "error" \/ line.is_error)

\* what a line that reached the switch showed: errSeen, an error record so
\* far; lastSeen, the last session id an assistant record carried before any
\* error record
Observed(dr, line) ==
    LET isErr == dr.format = "json" /\ IsErrorRecord(line)
    IN  [dr EXCEPT !.errSeen = @ \/ isErr,
                   !.lastSeen = IF ~dr.errSeen /\ ~isErr /\ dr.format = "json"
                                   /\ line.form = "json" /\ line.type = "assistant"
                                   /\ line.session_id # 0
                                THEN line.session_id ELSE @]

\* pendingSID after an assistant record: set only while it is empty
Pending(pending, line) ==
    IF line.type = "assistant" /\ line.session_id # 0 /\ pending = 0
    THEN line.session_id ELSE pending

\* the end of StreamAndLog after its loop: the snapshot is written unless an
\* error was seen or the session id was saved before
EndSave(dr, d, c) ==
    IF ~dr.streamHasError /\ ~dr.sidSaved
    THEN LET c1 == IF dr.pendingSID # 0 /\ dr.pendingSID # c.SID
                   THEN [c EXCEPT !.SID = dr.pendingSID] ELSE c
         IN  [c |-> c1, d |-> saveContext(d, c1), saved |-> TRUE]
    ELSE [c |-> c, d |-> d, saved |-> FALSE]

\* mutant: the message of every error record is written
ErrorOutputAlways(line) == << SunkMessage >>

\* what an error record writes to the sink: its message and a newline when
\* its type is "error"
ErrorOutput(line) == IF line.type = "error" THEN << SunkMessage >> ELSE << >>

\* mutant: a line that does not parse is written to the sink as it is
MalformedEchoed(dr, d, c, line) ==
    [dr |-> [dr EXCEPT !.sink = Append(@, SunkLine(line))], d |-> d, c |-> c]

\* json.Unmarshal fails: a warning, and `continue`
Malformed(dr, d, c, line) == [dr |-> dr, d |-> d, c |-> c]

\* one iteration of the loop on a JSON-format stream
JsonIteration(dr, d, c, line) ==
    IF line.form # "json" THEN Malformed(dr, d, c, line)
    ELSE LET she == dr.streamHasError \/ line.is_error
             p1  == IF line.is_error THEN 0 ELSE dr.pendingSID
         IN  IF line.type = "error" \/ (line.type = "result" /\ line.is_error)
             THEN [dr |-> [dr EXCEPT !.streamHasError = she, !.pendingSID = p1,
                                     !.sink = @ \o ErrorOutput(line)],
                   d |-> d, c |-> c]
             ELSE LET d1 == IF line.session_id # 0
                            THEN AppendLine(d, Log3(c), Record(line.session_id, "", line.type))
                            ELSE d
                      p2 == Pending(p1, line)
                      apply == p2 # 0 /\ ~she /\ p2 # c.SID
                      c1 == IF apply THEN [c EXCEPT !.SID = p2] ELSE c
                  IN  [dr |-> [dr EXCEPT !.streamHasError = she, !.pendingSID = p2,
                                         !.sidSaved = @ \/ apply,
                                         !.totalOutput = @ + line.len,
                                         !.sink = IF line.len > 0
                                                  THEN Append(@, SunkText(line.len)) ELSE @,
                                         !.sunk = @ + line.len],
                       d |-> IF apply THEN saveContext(d1, c1) ELSE d1,
                       c |-> c1]

\* mutant: a markup stream is logged like plain text
TextIterationLogsMarkup(dr, d, c, line) ==
    [dr |-> [dr EXCEPT !.totalOutput = @ + line.len, !.sunk = @ + line.len,
                       !.sink = Append(@, SunkLine(line)),
                       !.lateWrites = @ + (IF dr.notices > 0 THEN 1 ELSE 0)],
     d |-> IF line.len > 0 /\ dr.format \in {"text", "xml"}
           THEN AppendLine(d, Log3(c), MessageLine(c.SID, "assistant", Body(line))) ELSE d,
     c |-> c]

\* mutant: a log record for every line, the empty ones too
TextIterationLogsAll(dr, d, c, line) ==
    [dr |-> [dr EXCEPT !.totalOutput = @ + line.len, !.sunk = @ + line.len,
                       !.sink = Append(@, SunkLine(line)),
                       !.lateWrites = @ + (IF dr.notices > 0 THEN 1 ELSE 0)],
     d |-> IF dr.format = "text"
           THEN AppendLine(d, Log3(c), MessageLine(c.SID, "assistant", Body(line))) ELSE d,
     c |-> c]

\* one iteration on a plain-text stream, and on a stream of another format
\* or of no format yet (the default case, which writes no log record)
TextIteration(dr, d, c, line) ==
    [dr |-> [dr EXCEPT !.totalOutput = @ + line.len, !.sunk = @ + line.len,
                       !.sink = Append(@, SunkLine(line)),
                       !.lateWrites = @ + (IF dr.notices > 0 THEN 1 ELSE 0)],
     d |-> IF line.len > 0 /\ dr.format = "text"
           THEN AppendLine(d, Log3(c), MessageLine(c.SID, "assistant", Body(line))) ELSE d,
     c |-> c]

\* mutant: a failed read is followed by the save at the end
ReadFailureThenSave(dr, d, c) ==
    LET e == EndSave(dr, d, c)
    IN  [dr |-> [dr EXCEPT !.pc = "done", !.ret = "read_err", !.readFailed = TRUE,
                           !.endSave = e.saved],
         d |-> e.d, c |-> e.c]

\* scanner.Err() after the loop: a line longer than MaxLineLength or a
\* failed Read; StreamAndLog returns the error
ReadFailure(dr, d, c) ==
    [dr |-> [dr EXCEPT !.pc = "done", !.ret = "read_err", !.readFailed = TRUE],
     d |-> d, c |-> c]

\* after the loop, without a read error: the save at the end, return nil
Finished(dr, d, c) ==
    LET e == EndSave(dr, d, c)
    IN  [dr |-> [dr EXCEPT !.pc = "done", !.ret = "nil", !.endSave = e.saved],
         d |-> e.d, c |-> e.c]

InitDrain ==
    /\ \E mod \in {"", "architect"}, logged \in BOOLEAN :
         LET c == NewContext(1, 1, "claude", mod, RootEnv)
             d == IF logged THEN AppendMessage(EmptyDisk, c, "user") ELSE EmptyDisk
         IN  /\ ctx = c
             /\ disk = d
             /\ drain = NewDrain(c, d)
    /\ outcome = Allowed
    /\ pc = "drain"
    /\ calls = 0 /\ env = RootEnv /\ nest = 0 /\ effects = {} /\ nextId = 1
    /\ lvlForced = FALSE /\ st = 0 /\ cl = 0 /\ ops = << >> /\ call = 0

drainFrame ==
    <<outcome, env, nest, effects, nextId, pc, calls, lvlForced, st, cl, ops, call>>

\* one iteration of the loop, for the line scanner.Scan returned
Iteration(dr, d, c, line) ==
    LET dr0 == Scanned(dr, c, line)
        d0  == DiskFor(dr, d, c, line)
        dr1 == Observed(dr0, line)
    IN  IF dr.totalOutput >= MaxOutputSize
        THEN \* the truncation notice, break, and the end of the function
             Finished([dr0 EXCEPT !.notices = @ + 1, !.sink = Append(@, SunkNotice)],
                      d0, c)
        ELSE IF dr1.format = "json" THEN JsonIteration(dr1, d0, c, line)
        ELSE TextIteration(dr1, d0, c, line)

\* scanner.Scan returns a line
DrainLine ==
    /\ drain.pc = "scan"
    /\ drain.n < MaxLines
    /\ \E line \in NextLines(drain) :
         LET r == Iteration(drain, disk, ctx, line)
         IN  /\ drain' = r.dr
             /\ ctx' = r.c
             /\ disk' = r.d
    /\ UNCHANGED drainFrame

\* scanner.Scan returns false: end of the stream, or a failed Read
DrainEnd ==
    /\ drain.pc = "scan"
    /\ \E readFails \in BOOLEAN :
         LET r == IF readFails THEN ReadFailure(drain, disk, ctx)
                  ELSE Finished(drain, disk, ctx)
         IN  /\ drain' = r.dr
             /\ ctx' = r.c
             /\ disk' = r.d
    /\ UNCHANGED drainFrame

\* the process is interrupted inside an iteration, after the line with a
\* session id new to the context was written to the log and before the
\* snapshot is written
DrainCrash ==
    /\ drain.pc = "scan"
    /\ drain.n < MaxLines
    /\ drain.totalOutput < MaxOutputSize
    /\ \E line \in JsonLines :
         LET dr0 == Observed(Scanned(drain, ctx, line), line)
             d0  == DiskFor(drain, disk, ctx, line)
         IN  /\ dr0.format = "json"
             /\ line.session_id \notin {0, ctx.SID}
             /\ ~(line.type = "error" \/ (line.type = "result" /\ line.is_error))
             /\ drain' = [dr0 EXCEPT !.pc = "crashed"]
             /\ disk' = AppendLine(d0, Log3(ctx), Record(line.session_id, "", line.type))
    /\ UNCHANGED ctx
    /\ UNCHANGED drainFrame

NextDrain ==
    \/ DrainLine
    \/ DrainEnd
    \/ DrainCrash

SpecDrain == InitDrain /\ [][NextDrain]_vars

Drained == drain.pc = "done" /\ drain.ret = "nil"
Snapshot == disk.snap[Dir2(ctx)]

\* C14: when a structured stream held an error record (type "error", or
\* is_error set), wherever it stood, the context leaves StreamAndLog with the
\* session id it entered with, and the snapshot holds no id of the stream.
C14_ErrorStreamKeepsSid ==
    (Drained /\ drain.format = "json" /\ drain.errSeen)
        => (ctx.SID = drain.sid0 /\ Snapshot \in {0, drain.sid0})

\* C15: in a structured stream with no error record so far, an assistant
\* record whose session id is non-empty and differs from the context's is
\* applied and saved before the next line is read, the first time and every
\* later time; at the end the context holds the last id observed.
C15_EveryNewSidApplied ==
    /\ (/\ drain.pc = "scan" /\ drain.n > 0 /\ drain.format = "json"
        /\ ~drain.errSeen
        /\ drain.line.form = "json" /\ drain.line.type = "assistant"
        /\ drain.line.session_id \notin {0, drain.sidPrev})
           => (ctx.SID = drain.line.session_id /\ Snapshot = drain.line.session_id)
    /\ (Drained /\ drain.format = "json" /\ ~drain.errSeen /\ drain.lastSeen # 0)
           => ctx.SID = drain.lastSeen

\* C16: after an interruption that left a record with a new session id S in
\* the log and the snapshot not yet rewritten, DetermineSessionID returns S.
C16_CrashRecoversFromLog ==
    drain.pc = "crashed" => DetermineSessionID(disk, ctx) = drain.line.session_id

\* C17: a plain-text stream whose content exceeds MaxOutputSize leaves at
\* most MaxOutputSize bytes of content in the sink, then exactly one
\* truncation notice and nothing after it, and StreamAndLog returns nil.
C17_TruncatedAtCeiling ==
    (/\ drain.pc = "done" /\ drain.format = "text" /\ ~drain.readFailed
     /\ drain.inBytes > MaxOutputSize)
        => (/\ drain.sunk <= MaxOutputSize
            /\ drain.notices = 1
            /\ drain.lateWrites = 0
            /\ drain.ret = "nil")

\* the step read, on a structured stream, a record of type "error" or a
\* record of type "result" with is_error set
ReadsErrorTyped ==
    /\ drain.pc = "scan" /\ drain'.pc = "scan" /\ drain'.n = drain.n + 1
    /\ drain'.format = "json" /\ drain'.line.form = "json"
    /\ \/ drain'.line.type = "error"
       \/ drain'.line.type = "result" /\ drain'.line.is_error

C24_ReadFailureAborts ==
    [][(drain.pc = "scan" /\ drain'.readFailed) =>
          /\ drain'.pc = "done" /\ drain'.ret = "read_err"
          /\ drain'.sink = drain.sink
          /\ disk' = disk
          /\ ctx' = ctx
          /\ ~drain'.endSave]_vars

\* a plain-text stream failed after a line was written and logged, with the
\* save of the end of the stream still due
C24_Witness ==
    /\ drain.readFailed /\ drain.ret = "read_err"
    /\ drain.format = "text" /\ drain.sink # << >>
    /\ Len(disk.log[Log3(ctx)]) > Len(drain.disk0.log[Log3(ctx)])
    /\ ~drain.sidSaved /\ ~drain.streamHasError

\* the bytes of the lines before the i-th
RECURSIVE BytesBefore(_, _)
BytesBefore(lines, i) ==
    IF i <= 1 THEN 0 ELSE BytesBefore(lines, i - 1) + lines[i - 1].len

\* the lines handled before the output ceiling was reached: those read while
\* fewer than MaxOutputSize bytes had been written
BelowCeiling(lines) ==
    LET k == Cardinality({i \in 1..Len(lines) : BytesBefore(lines, i) < MaxOutputSize})
    IN  SubSeq(lines, 1, k)

\* the lines of the sink, and the log records StreamAndLog appended
SinkLines == SelectSeq(drain.sink, LAMBDA w : w.kind = "line")
Appended ==
    SubSeq(disk.log[Log3(ctx)], Len(drain.disk0.log[Log3(ctx)]) + 1,
           Len(disk.log[Log3(ctx)]))

\* the sink and the log a plain-text stream owes to the given lines
OwedSink(lines) == [i \in 1..Len(lines) |-> SunkLine(lines[i])]
OwedLog(lines) ==
    LET full == SelectSeq(lines, LAMBDA l : l.len > 0)
    IN  [i \in 1..Len(full) |-> MessageLine(ctx.SID, "assistant", Body(full[i]))]

PlainStream == drain.format \in {"", "text"}

\* C25 as stated: every line of a plain-text stream is in the sink, in
\* order and with its newline, and the log gained one assistant record per
\* non-empty line.
C25_EveryLine_Original ==
    (PlainStream /\ drain.pc \in {"scan", "done"})
        => (SinkLines = OwedSink(drain.input) /\ Appended = OwedLog(drain.input))

\* C25 amended: the same of every line read before the output ceiling was
\* reached (while fewer than MaxOutputSize bytes had been written).
C25_EveryLineBelowCeiling ==
    (PlainStream /\ drain.pc \in {"scan", "done"})
        => (/\ SinkLines = OwedSink(BelowCeiling(drain.input))
            /\ Appended = OwedLog(BelowCeiling(drain.input)))

\* empty and non-empty lines were written, the non-empty ones logged
C25_Witness ==
    /\ drain.format = "text" /\ drain.pc = "done" /\ drain.ret = "nil"
    /\ Len(SinkLines) = 3 /\ Len(Appended) = 2
    /\ \E i \in 1..3 : drain.input[i] = EmptyLine

\* C28: the format is the one the first character of the first non-empty line
\* gives ('{' or '[' structured, '<' markup, anything else plain text), none
\* while only empty lines were read, whatever the later lines begin with.
C28_FormatDecidedOnce ==
    drain.format =
        IF drain.first0 = "" THEN ""
        ELSE IF drain.first0 \in {"{", "["} THEN "json"
        ELSE IF drain.first0 = "<" THEN "xml"
        ELSE "text"

\* after an empty line a plain line set the format, and a line opening with
\* '{' followed
C28_Witness ==
    /\ drain.n = 3 /\ drain.format = "text"
    /\ drain.input[1] = EmptyLine
    /\ drain.line.first = "{"

\* the directory, the snapshot and the log file of the context are on disk
SetUp == Dir2(ctx) \in disk.dirs /\ Snapshot # 0 /\ Log3(ctx) \in disk.files

\* C29: the directory, the first snapshot and the log file are made when
\* the first non-empty line is read and not before: while StreamAndLog has
\* read nothing or only empty lines it has changed nothing on disk.
C29_NothingBeforeFirstLine ==
    /\ (drain.pc \in {"scan", "done"} /\ drain.first0 = "") => disk = drain.disk0
    /\ (drain.pc \in {"scan", "done"} /\ drain.first0 # "") => SetUp

\* inside the loop the deferral holds: nothing is made while only empty
\* lines were read, all of it once a non-empty line was
SetupAtFirstLine ==
    drain.pc = "scan" => IF drain.first0 = "" THEN disk = drain.disk0 ELSE SetUp

\* a session id of the stream was applied and saved before the end
SavedMidStream == ctx.SID # drain.sid0

\* C30: at the end of the stream the snapshot is written once more exactly
\* when no error record was seen and no session id change was saved
\* mid-stream.
C30_EndSaveExactlyWhenClean ==
    Drained => (drain.endSave <=> (~drain.errSeen /\ ~SavedMidStream))

\* the same with "error record" read as "record with is_error set", which is
\* what streamHasError tracks
EndSaveByIndicator ==
    Drained => (drain.endSave <=> (~drain.streamHasError /\ ~SavedMidStream))

\* the step handled, on a structured stream, a line that parses as a record
ReadsRecord ==
    /\ drain.pc = "scan" /\ drain'.pc = "scan" /\ drain'.n = drain.n + 1
    /\ drain'.format = "json" /\ drain'.line.form = "json"

\* C31: on a structured stream a record is appended to the log, as it was
\* read, if and only if it carries a session identifier and is not an error
\* record; a record with is_error set is never appended.
C31_LoggedIffSidAndNoError ==
    [][ReadsRecord =>
          LET line == drain'.line
              was  == disk.log[Log3(ctx)]
              now  == disk'.log[Log3(ctx)]
          IN  /\ now = IF line.session_id # 0 /\ ~IsErrorRecord(line)
                       THEN Append(was, Record(line.session_id, "", line.type))
                       ELSE was
              /\ line.is_error => now = was]_vars

\* what a markup stream leaves alone: the log gains no record and holds an
\* established session only if it did before, and the session id stays
MarkupLeaves ==
    /\ Appended = << >>
    /\ hasEstablishedSession(disk, Log3(ctx)) = hasEstablishedSession(drain.disk0, Log3(ctx))
    /\ ctx.SID = drain.sid0

\* C38 as stated: when the first non-empty line begins with '<', every line
\* is in the sink with its newline, no record is appended to the log, and
\* the session id does not change, so the log holds no established session
\* it did not hold before.
C38_MarkupWrittenNotLogged_Original ==
    (drain.format = "xml" /\ drain.pc \in {"scan", "done"})
        => (SinkLines = OwedSink(drain.input) /\ MarkupLeaves)

\* C38 amended: the same, of every line read before the output ceiling was
\* reached (while fewer than MaxOutputSize bytes had been written).
C38_MarkupBelowCeiling ==
    (drain.format = "xml" /\ drain.pc \in {"scan", "done"})
        => (SinkLines = OwedSink(BelowCeiling(drain.input)) /\ MarkupLeaves)

\* a markup stream of three lines ended after the prompt had been logged:
\* the lines are in the sink and the log is as it was
C38_Witness ==
    /\ drain.format = "xml" /\ drain.pc = "done" /\ drain.ret = "nil"
    /\ drain.first0 = "<" /\ Len(drain.input) = 3 /\ Len(SinkLines) = 3
    /\ drain.input[3].len > 0
    /\ Len(disk.log[Log3(ctx)]) = 1

\* the step read, on a structured stream, a line that does not parse
ReadsMalformed ==
    /\ drain.pc = "scan" /\ drain'.n = drain.n + 1
    /\ drain'.format = "json" /\ drain'.line.form # "json"

\* what skipping a line leaves as it was: the sink, the log, the error flag,
\* the pending and the current session id, and the loop goes on
SkippedOver ==
    /\ drain'.sink = drain.sink
    /\ disk'.log = disk.log
    /\ drain'.streamHasError = drain.streamHasError
    /\ drain'.pendingSID = drain.pendingSID
    /\ ctx'.SID = ctx.SID
    /\ drain'.pc = "scan"

\* C35 as stated: on a structured stream every line that is not valid JSON
\* is skipped: nothing to the sink, nothing to the log, error flag, pending
\* and current session id unchanged, and the next line is read.
C35_MalformedSkipped_Original ==
    [][ReadsMalformed => SkippedOver]_vars

\* C35 amended: the same of every such line read while fewer than
\* MaxOutputSize bytes were written.
C35_MalformedSkippedBelowCeiling ==
    [][(ReadsMalformed /\ drain.totalOutput < MaxOutputSize) => SkippedOver]_vars

\* a line that does not parse was skipped after a record had set a session
\* id, and the stream is still read
C35_Witness ==
    /\ drain.pc = "scan" /\ drain.format = "json" /\ drain.n = 2
    /\ drain.line = TextLine("x", 1)
    /\ drain.sidSaved /\ drain.sink = << SunkText(2) >>
    /\ Len(disk.log[Log3(ctx)]) = Len(drain.disk0.log[Log3(ctx)]) + 1

\* the same with "error record" read as the records the error branch takes:
\* type "error", or type "result" with is_error set
LoggedIffSidAndNotErrorTyped ==
    [][ReadsRecord =>
          LET line == drain'.line
              was  == disk.log[Log3(ctx)]
              now  == disk'.log[Log3(ctx)]
          IN  now = IF line.session_id # 0 /\ ~ReadsErrorTyped
                    THEN Append(was, Record(line.session_id, "", line.type))
                    ELSE was]_vars

-----------------------------------------------------------------------------
(* main, one function at a time: a top-level invocation and the invocation *)
(* its backend makes                                                       *)

MaxCallLines == 1

\* a conversation stored by earlier calls, with persona and without
Stored1 == NewContext(1, 1, "claude", "architect", RootEnv)
Stored2 == NewContext(1, 1, "claude", "", RootEnv)

\* what is on disk at the start: nothing (0); conversation 1 whose only call
\* gave no output (1); the same with an answer (2); an undifferentiated
\* conversation 1 whose backend reported session 2 (3)
StoredKinds == 0..3
StoredDisk(k) ==
    LET quiet == saveContext(AppendMessage(EmptyDisk, Stored1, "user"), Stored1)
        plain == AppendMessage(EmptyDisk, Stored2, "user")
    IN  CASE k = 0 -> EmptyDisk
          [] k = 1 -> quiet
          [] k = 2 -> AppendRecord(quiet, Log3(Stored1), 1, "assistant")
          [] k = 3 -> saveContext(AppendRecord(plain, Log3(Stored2), 2, "assistant"),
                                  [Stored2 EXCEPT !.SID = 2])

\* the flags of an invocation, the context as InitContext or ResumeContext
\* returned it (born), the id buildSessionFlags minted (0: none), and the
\* context of the invocation whose backend made this one
NoCall ==
    [mod |-> "", cid |-> 0, new |-> FALSE, sid |-> 0, lvl |-> -1, top |-> Empty,
     tag |-> Empty, born |-> NoContext, minted |-> 0, parent |-> NoContext]

\* -sid, -lvl, -top, -tag: none, or one of them
OverrideFlags ==
    {[sid |-> 0, lvl |-> -1, top |-> Empty, tag |-> Empty],
     [sid |-> 2, lvl |-> -1, top |-> Empty, tag |-> Empty],
     [sid |-> 0, lvl |-> 0, top |-> Empty, tag |-> Empty],
     [sid |-> 0, lvl |-> -1, top |-> <<"claude">>, tag |-> Empty],
     [sid |-> 0, lvl |-> -1, top |-> Empty, tag |-> <<"engineer", Sep, "claude">>]}

\* the lines a backend writes here
CallLines ==
    {EmptyLine, TextLine("x", 1), JsonLine("assistant", 2, FALSE),
     JsonLine("error", 0, FALSE), JsonLine("result", 2, TRUE)}

IdleDrain == [NewDrain(NoContext, EmptyDisk) EXCEPT !.pc = "idle"]

InitCall ==
    /\ \E k \in StoredKinds : disk = StoredDisk(k)
    /\ ctx = NoContext
    /\ call = NoCall
    /\ env = RootEnv
    /\ nextId = 3
    /\ pc = "args"
    /\ outcome = -1
    /\ drain = IdleDrain
    /\ nest = 0 /\ calls = 0 /\ effects = {} /\ lvlForced = FALSE
    /\ st = 0 /\ cl = 0 /\ ops = << >>

callFrame == <<nest, calls, effects, lvlForced, st, cl, ops>>

\* main up to the context: the flags and their defaults from the
\* environment, then InitContext, or ResumeContext with DetermineSessionID
CallCreate ==
    /\ pc = "args"
    /\ \E mod \in {"", "architect"}, cid \in {env.AICID, 1}, new \in BOOLEAN,
          o \in OverrideFlags :
         LET r   == NewContext(cid, cid, "claude", mod, env)
             sid == DetermineSessionID(disk, r)
             ok  == IF cid = 0 THEN new
                    ELSE sid # ResolveError /\ disk.snap[Dir2(r)] # 0
             c0  == IF cid = 0 THEN NewContext(nextId, nextId, "claude", mod, env)
                    ELSE [r EXCEPT !.SID = sid]
         IN  /\ call' = [mod |-> mod, cid |-> cid, new |-> new, sid |-> o.sid,
                         lvl |-> o.lvl, top |-> o.top, tag |-> o.tag,
                         born |-> IF ok THEN c0 ELSE NoContext, minted |-> 0,
                         parent |-> call.parent]
             /\ ctx' = IF ok THEN c0 ELSE NoContext
             /\ pc' = IF ok THEN "created" ELSE "exit"
             /\ nextId' = IF ok /\ cid = 0 THEN nextId + 1 ELSE nextId
    /\ UNCHANGED <<env, disk, outcome, drain, callFrame>>

Branches == call.cid # 0 /\ call.new

\* Branch, for -new with a conversation
CallBranch ==
    /\ pc = "created"
    /\ Branches
    /\ ctx' = Branch(ctx, nextId)
    /\ nextId' = nextId + 1
    /\ disk' = saveContext(MkdirAll(disk, Dir2(ctx')), ctx')
    /\ pc' = "branched"
    /\ UNCHANGED <<env, outcome, drain, call, callFrame>>

\* -sid
SidOverride(c, sid) == IF sid # 0 THEN [c EXCEPT !.SID = sid] ELSE c

\* the overrides of the context's fields
CallOverrides ==
    /\ \/ pc = "branched"
       \/ pc = "created" /\ ~Branches
    /\ ctx' = ApplyOverrides(SidOverride(ctx, call.sid), call.lvl, call.top, call.tag)
    /\ pc' = "ready"
    /\ UNCHANGED <<env, disk, nextId, outcome, drain, call, callFrame>>

\* AppendMessage(ctx, "user", prompt)
CallAppend ==
    /\ pc = "ready"
    /\ disk' = AppendMessage(disk, ctx, "user")
    /\ pc' = "logged"
    /\ UNCHANGED <<ctx, env, nextId, outcome, drain, call, callFrame>>

\* CallGenus: ValidateCall, buildSessionFlags, the command; then main hands
\* the stream to StreamAndLog
CallGenus ==
    /\ pc = "logged"
    /\ LET code == ValidateCall(ctx)
           f    == buildSessionFlags(disk, ctx, HasBranchFlags(ctx.GEN), nextId)
           c1   == [ctx EXCEPT !.SID = f.sid]
       IN  /\ outcome' = code
           /\ IF code # Allowed
              THEN /\ pc' = "exit"
                   /\ UNCHANGED <<ctx, nextId, call, drain>>
              ELSE /\ pc' = "drain"
                   /\ ctx' = c1
                   /\ nextId' = IF f.minted THEN nextId + 1 ELSE nextId
                   /\ call' = [call EXCEPT !.minted = IF f.minted THEN f.sid ELSE 0]
                   /\ drain' = NewDrain(c1, disk)
    /\ UNCHANGED <<env, disk, callFrame>>

\* StreamAndLog reads a line
CallLine ==
    /\ pc = "drain"
    /\ drain.pc = "scan"
    /\ drain.n < MaxCallLines
    /\ \E line \in CallLines \cap NextLines(drain) :
         LET r == Iteration(drain, disk, ctx, line)
         IN  /\ drain' = r.dr
             /\ ctx' = r.c
             /\ disk' = r.d
    /\ UNCHANGED <<env, nextId, outcome, pc, call, callFrame>>

\* StreamAndLog returns: the stream ended, or a Read failed (the backend did
\* not start, or the pipe broke)
CallEnd ==
    /\ pc = "drain"
    /\ DrainEnd

\* the backend, before it writes anything, invokes aimux: the invocation of
\* a backend of a top-level call, in the environment CallGenus exported
CallNested ==
    /\ pc = "drain"
    /\ drain.pc = "scan"
    /\ drain.n = 0
    /\ call.parent = NoContext
    /\ env' = ChildEnv(ctx)
    /\ call' = [NoCall EXCEPT !.parent = ctx]
    /\ ctx' = NoContext
    /\ pc' = "args"
    /\ outcome' = -1
    /\ drain' = IdleDrain
    /\ nest' = nest + 1
    /\ UNCHANGED <<disk, nextId, calls, effects, lvlForced, st, cl, ops>>

NextCall ==
    \/ CallCreate
    \/ CallBranch
    \/ CallOverrides
    \/ CallAppend
    \/ CallGenus
    \/ CallLine
    \/ CallEnd
    \/ CallNested

SpecCall == InitCall /\ [][NextCall]_vars

\* a context exists
HasContext == pc \in {"created", "branched", "ready", "logged", "drain"}

\* C21: from the return of InitContext or ResumeContext on, through
\* DetermineSessionID, Branch, the overrides, AppendMessage, CallGenus with
\* buildSessionFlags and StreamAndLog, the context keeps its conversation id.
C21_ConversationIdKept ==
    HasContext => ctx.CID = call.born.CID

\* a resumed conversation was branched, a session id was minted for the
\* flags and another one came with the stream
C21_Witness ==
    /\ pc = "drain" /\ drain.pc = "done"
    /\ Branches /\ call.minted # 0
    /\ ctx.SID \notin {call.born.SID, call.minted}
    /\ ctx.CID = 1

\* 'Persona~Genus', or bare 'Genus' when Persona is empty
DerivedTag(c) == Str(c.MOD) \o (IF c.MOD = "" THEN Empty ELSE <<Sep>>) \o <<c.GEN>>

\* the context reaches ValidateCall and CallGenus
ReachesCallGenus == pc \in {"logged", "drain"}

\* C22 as stated: every context that reaches ValidateCall and CallGenus has
\* the callee tag derived from its persona and genus.
C22_TagDerived_Original ==
    ReachesCallGenus => ctx.TAG = DerivedTag(ctx)

\* C22 amended: the callee tag is the value of -tag when that flag was
\* given, and the tag derived from persona and genus otherwise.
C22_TagDerivedUnlessFlag ==
    ReachesCallGenus =>
        ctx.TAG = IF call.tag # Empty THEN call.tag ELSE DerivedTag(ctx)

\* a context with -tag given went through ValidateCall into CallGenus
C22_Witness ==
    /\ pc = "drain" /\ outcome = Allowed
    /\ call.tag # Empty /\ ctx.TAG = call.tag /\ ctx.TAG # DerivedTag(ctx)

\* the call failed: the backend did not start or the stream broke, it gave
\* no output, or it reported an error
CallFailed ==
    /\ pc = "drain" /\ drain.pc = "done"
    /\ \/ drain.readFailed
       \/ drain.first0 = ""
       \/ drain.errSeen

\* C26: a session id minted by buildSessionFlags is never in the snapshot
\* when the call failed (spawn failure, no output, a backend error record,
\* a stream error).
C26_MintedIdProvisional ==
    (CallFailed /\ call.minted # 0) => Snapshot # call.minted

\* C27: a nested call is handed its caller's depth plus one and its caller's
\* callee tag as caller tag; no operation lowers the depth of a context, and
\* no context has a negative depth.
C27_DepthOnlyGrows ==
    HasContext =>
        /\ call.parent # NoContext =>
               /\ call.born.LVL = call.parent.LVL + 1
               /\ call.born.TOP = call.parent.TAG
        /\ ctx.LVL >= call.born.LVL
        /\ ctx.LVL >= 0

-----------------------------------------------------------------------------
(* buildSessionFlags on arbitrary stored logs *)

MaxPlainLogLen == 1

\* the lines a log may hold: the prompt AppendMessage wrote, an answer logged
\* as a Message, records of the backend logged as they came (no "from"), a
\* prompt of more than 64KB, a line that is no JSON
FlagLines ==
    {Record(1, "user", ""), Record(1, "assistant", ""),
     Record(2, "", "assistant"), Record(2, "", "system"),
     LongLine(Record(1, "user", "")), GarbageLine}

\* the stored logs of context c; exists2: the persona log is a file even
\* when it is empty
FlagDisk(c, l2, exists2, l1) ==
    LET d0 == [EmptyDisk EXCEPT !.dirs = {Dir1(c), Dir2(c), Log2(c)}]
        d1 == IF l2 = << >> /\ ~exists2 THEN d0
              ELSE [d0 EXCEPT !.files = @ \cup {Log2(c)}, !.log[Log2(c)] = l2]
    IN  IF l1 = << >> THEN d1
        ELSE [d1 EXCEPT !.files = @ \cup {Log1(c)}, !.log[Log1(c)] = l1]

NoFlags == [kind |-> "", sid |-> 0, minted |-> FALSE, isNew |-> FALSE]

\* a context of conversation 1 whose session id is the conversation id or
\* another id, before CallGenus builds the flags
InitFlags ==
    /\ \E mod \in {"", "architect"}, gen \in Genera, sid \in {1, 2}, exists2 \in BOOLEAN,
          l2 \in LinesUpTo(FlagLines, MaxLogLen),
          l1 \in LinesUpTo(FlagLines, MaxPlainLogLen) :
         LET c == NewContext(1, sid, gen, mod, RootEnv)
         IN  /\ ctx = c
             /\ disk = FlagDisk(c, l2, exists2, l1)
             /\ call = [flags |-> NoFlags, before |-> c, fresh |-> 3]
    /\ outcome = -1
    /\ pc = "flags"
    /\ nextId = 3
    /\ calls = 0 /\ env = RootEnv /\ nest = 0 /\ effects = {}
    /\ lvlForced = FALSE /\ st = 0 /\ cl = 0 /\ ops = << >> /\ drain = 0

\* CallGenus: buildSessionFlags, which may replace the session id of the
\* context
BuildFlags ==
    /\ pc = "flags"
    /\ LET f == buildSessionFlags(disk, ctx, HasBranchFlags(ctx.GEN), nextId)
       IN  /\ call' = [call EXCEPT !.flags = f]
           /\ ctx' = [ctx EXCEPT !.SID = f.sid]
           /\ nextId' = IF f.minted THEN nextId + 1 ELSE nextId
    /\ pc' = "built"
    /\ UNCHANGED <<outcome, env, nest, disk, effects, calls, lvlForced, st, cl, ops, drain>>

NextFlags == BuildFlags

SpecFlags == InitFlags /\ [][NextFlags]_vars

Built == pc = "built"

\* the log holds a record that is not the user's: a Message whose origin is
\* not "user", or a record of the backend of type "assistant"
HoldsEstablished(path) ==
    /\ path \in disk.files
    /\ \E i \in 1..Len(disk.log[path]) :
         LET l == disk.log[path][i]
         IN  l.form = "json" /\ (l.from \notin {"", "user"} \/ l.type = "assistant")

\* no line of the log exceeds what the scanner returns as one token
Readable(path) == \A i \in 1..Len(disk.log[path]) : ~disk.log[path][i].long

\* the flag set the log state calls for
FlagsOwed ==
    IF HoldsEstablished(Log2(ctx)) THEN "resume"
    ELSE IF HoldsEstablished(Log1(ctx))
    THEN (IF Log2(ctx) \in disk.files /\ HasBranchFlags(ctx.GEN) THEN "branch" ELSE "resume")
    ELSE "new"

\* C32: resume flags when the persona log holds an established session;
\* otherwise, when the undifferentiated log holds one, branch flags if the
\* persona log file exists and the genus has branch flags, else resume
\* flags; otherwise start-new flags. 'New session' is reported in the
\* start-new case only, and the flags carry the session id of the context.
C32_FlagsFromLogState ==
    Built =>
        /\ call.flags.kind = FlagsOwed
        /\ call.flags.isNew <=> call.flags.kind = "new"
        /\ call.flags.sid = ctx.SID

\* the same holds of logs every line of which the scanner can return
FlagsFromReadableLogs ==
    (Built /\ Readable(Log2(ctx)) /\ Readable(Log1(ctx))) =>
        /\ call.flags.kind = FlagsOwed
        /\ call.flags.isNew <=> call.flags.kind = "new"
        /\ call.flags.sid = ctx.SID

\* the one situation in which a session id is to be minted
MintOwed ==
    /\ ~HoldsEstablished(Log2(ctx)) /\ ~HoldsEstablished(Log1(ctx))
    /\ Log2(ctx) \in disk.files
    /\ call.before.CID # call.before.SID

\* C33: buildSessionFlags changes the session id exactly when no log holds
\* an established session, the persona log file exists (even empty) and the
\* conversation id differs from the session id: a fresh id is then put into
\* the context and the flags; otherwise the session id stays.
C33_MintsInOneSituation ==
    Built =>
        /\ MintOwed <=> ctx.SID # call.before.SID
        /\ MintOwed => (ctx.SID = call.fresh /\ call.flags.sid = call.fresh)

\* the same holds of logs every line of which the scanner can return
MintsInOneSituationReadable ==
    (Built /\ Readable(Log2(ctx)) /\ Readable(Log1(ctx))) =>
        /\ MintOwed <=> ctx.SID # call.before.SID
        /\ MintOwed => (ctx.SID = call.fresh /\ call.flags.sid = call.fresh)

====
